---- MODULE Spec2Model ----
(***************************************************************************)
(* Model of ImprovedSFTNumberGenerator (src/streamlit_app.py): the ledger  *)
(* kept in st.session_state (used_numbers, applications, sft_mapping), the *)
(* persisted JSON document sft_persistent_data.json, and the generator's   *)
(* methods.  Strings are sequences of one-character strings so that        *)
(* slicing, padding and concatenation are computed as Python computes them.*)
(***************************************************************************)
EXTENDS Integers, Sequences, FiniteSets, TLC

VARIABLES used_numbers,   \* st.session_state.used_numbers : set of int
          applications,   \* st.session_state.applications : list of records
          sft_mapping,    \* st.session_state.sft_mapping  : dict id -> info
          file,           \* contents of sft_persistent_data.json
          now,            \* the wall clock read by datetime.now()
          result,         \* outcome of the last method call
          issued          \* history: the numeric ids handed out in this session,
                          \* in order, each with the method that handed it out

vars == <<used_numbers, applications, sft_mapping, file, now, result, issued>>

-----------------------------------------------------------------------------
(* Bounds of the model.                                                    *)

\* Number of ids in the range; the program's range 3000..9999 has 7000.
RangeSize == 2

\* Largest clock reading.
MaxClock == 1

\* Longest name fed to extract_app_prefix in SpecPrefix.
MaxNameLen == 5

\* The longest applications_list given to bulk_register_applications.
MaxBatch == 3

-----------------------------------------------------------------------------
(* Program constants.                                                      *)

min_number == 3000

\* self.max_number is 9999 in the source; the model keeps the lower end and
\* the 4-digit width of every id and scales the size of the range.
max_number == min_number + RangeSize - 1

-----------------------------------------------------------------------------
(* Characters and strings.                                                 *)

LowerLetters == <<"a","b","c","d","e","f","g","h","i","j","k","l","m",
                  "n","o","p","q","r","s","t","u","v","w","x","y","z">>

UpperLetters == <<"A","B","C","D","E","F","G","H","I","J","K","L","M",
                  "N","O","P","Q","R","S","T","U","V","W","X","Y","Z">>

DigitChars == <<"0","1","2","3","4","5","6","7","8","9">>

Range(s) == {s[i] : i \in DOMAIN s}

LowerSet == Range(LowerLetters)

\* The character class [a-zA-Z0-9] of the regular expression.
AsciiAlnum == Range(LowerLetters) \cup Range(UpperLetters) \cup Range(DigitChars)

\* str.upper() on one character.  "eszett" stands for U+00DF, whose upper
\* case is the two letters "SS"; "eacute" stands for U+00E9, whose upper
\* case "Eacute" (U+00C9) is not an ASCII letter.
UpperChar(c) ==
    IF c \in LowerSet
    THEN <<UpperLetters[CHOOSE i \in DOMAIN LowerLetters : LowerLetters[i] = c]>>
    ELSE IF c = "eszett" THEN <<"S", "S">>
    ELSE IF c = "eacute" THEN <<"Eacute">>
    ELSE <<c>>

RECURSIVE Upper(_)
Upper(s) == IF s = <<>> THEN <<>> ELSE UpperChar(Head(s)) \o Upper(Tail(s))

IsAsciiAlnum(c) == c \in AsciiAlnum

\* A mutation of Cleaned: the name is filtered without being upper-cased.
CleanedNotUpper(app_name) == SelectSeq(app_name, IsAsciiAlnum)

\* re.sub(r'[^a-zA-Z0-9]', '', app_name.upper())
Cleaned(app_name) == SelectSeq(Upper(app_name), IsAsciiAlnum)

\* str.ljust(width, fillchar)
Ljust(s, width, fillchar) ==
    IF Len(s) >= width THEN s
    ELSE s \o [i \in 1..(width - Len(s)) |-> fillchar]

\* s[:n] and s[-n:] for n > 0
SliceFirst(s, n) == SubSeq(s, 1, IF n < Len(s) THEN n ELSE Len(s))
SliceLast(s, n) == SubSeq(s, IF Len(s) - n + 1 > 1 THEN Len(s) - n + 1 ELSE 1, Len(s))

\* A mutation of extract_app_prefix: a long name gives its first four
\* characters.
extract_app_prefix_first_four(app_name) == Ljust(SliceFirst(Cleaned(app_name), 4), 4, "X")

extract_app_prefix(app_name) ==
    LET cleaned == Cleaned(app_name) IN
    IF Len(cleaned) = 0 THEN <<"X", "X", "X", "X">>
    ELSE IF Len(cleaned) <= 4 THEN Ljust(cleaned, 4, "X")
    ELSE IF Len(cleaned) >= 4
         THEN SliceFirst(SliceFirst(cleaned, 2) \o SliceLast(cleaned, 2), 4)
         ELSE Ljust(cleaned, 4, "X")

\* The decimal text of an int, as an f-string renders it.
RECURSIVE Decimal(_)
Decimal(n) ==
    IF n < 0 THEN <<"-">> \o Decimal(0 - n)
    ELSE IF n < 10 THEN <<DigitChars[n + 1]>>
    ELSE Decimal(n \div 10) \o <<DigitChars[(n % 10) + 1]>>

\* A mutation of FormatSft: the number is put before the prefix.
FormatSftNumberFirst(app_prefix, number) ==
    <<"S", "F", "T", "_">> \o Decimal(number) \o app_prefix

\* f"SFT_{app_prefix}{number}"
FormatSft(app_prefix, number) == <<"S", "F", "T", "_">> \o app_prefix \o Decimal(number)

-----------------------------------------------------------------------------
(* Inputs.                                                                 *)

WebApp_Authentication ==
    <<"W","e","b","A","p","p","_","A","u","t","h","e","n","t","i","c","a","t","i","o","n">>

\* Names given to register and reserve, and the description given with each.
AppNames == { <<"W","e","b","_","A","p","i">>, <<"d","b">> }

DescriptionOf(app_name) == IF Len(app_name) > 4 THEN <<"v","2">> ELSE <<>>

\* Numbers given to reserve_specific_number and is_number_available.
NumberInputs == (min_number - 1)..(max_number + 1)

\* Alphabet of the names of SpecPrefix.
PrefixAlphabet == {"a", "B", "7", "_", "eszett", "eacute"}

RECURSIVE SeqsUpTo(_, _)
SeqsUpTo(S, n) ==
    IF n = 0 THEN {<<>>}
    ELSE LET shorter == SeqsUpTo(S, n - 1) IN
         shorter \cup {Append(s, c) : s \in {t \in shorter : Len(t) = n - 1}, c \in S}

PrefixInputs == SeqsUpTo(PrefixAlphabet, MaxNameLen) \cup {WebApp_Authentication} \cup AppNames

\* The entries the bulk page builds from the text area's lines: each has a
\* name and a description.
BulkEntries == {[name |-> app_name, description |-> DescriptionOf(app_name)] :
                   app_name \in AppNames}

\* The lists given to bulk_register_applications.
BulkInputs == SeqsUpTo(BulkEntries, MaxBatch) \ {<<>>}

\* Terms given to search_applications: part of a name in lower case, and the
\* digits of the lowest id.
SearchTerms == {<<"a", "p", "i">>, Decimal(min_number)}

-----------------------------------------------------------------------------
(* The persisted document.                                                 *)

EmptyMap == [k \in {} |-> 0]

\* os.path.exists(self.data_file) is false.
NoFile == [exists |-> FALSE, valid |-> FALSE, used_numbers |-> <<>>,
           applications |-> <<>>, sft_mapping |-> EmptyMap, last_updated |-> 0]

\* The file was truncated by open(..., 'w') and json.dump did not complete:
\* json.load raises on it.
Corrupt == [exists |-> TRUE, valid |-> FALSE, used_numbers |-> <<>>,
            applications |-> <<>>, sft_mapping |-> EmptyMap, last_updated |-> 0]

\* What can happen to the write: it completes, open() raises (the old file
\* stays), or the dump raises after open() truncated the file.
IoOutcomes == {"ok", "open_error", "write_error"}

\* list(a_set): the elements once each, in an order the program does not fix.
ListOf(S) == {s \in [1..Cardinality(S) -> S] : Range(s) = S}

\* The orders a write can put used_numbers in; a write that fails puts none.
Orders(S, io) == IF io = "ok" THEN ListOf(S) ELSE {<<>>}

\* set(a_list)
SetOf(s) == Range(s)

\* The file after save_persistent_data() on the ledger (used, apps, mapping):
\* every exception is caught and printed, none reaches the caller.
save_persistent_data(f, used, apps, mapping, order, t, io) ==
    IF io = "ok"
    THEN [exists |-> TRUE, valid |-> TRUE, used_numbers |-> order,
          applications |-> apps, sft_mapping |-> mapping, last_updated |-> t]
    ELSE IF io = "open_error" THEN f
    ELSE Corrupt

\* The ledger after load_persistent_data(): the file's when it exists and
\* json.load succeeds, empty when there is no file or json.load raises.
load_persistent_data(f) ==
    IF f.exists /\ f.valid
    THEN <<SetOf(f.used_numbers), f.applications, f.sft_mapping>>
    ELSE <<{}, <<>>, EmptyMap>>

-----------------------------------------------------------------------------
(* Results of calls.                                                       *)

NoResult == [op |-> "none", app_name |-> <<>>, number |-> 0, ret |-> <<>>,
             raised |-> "none", caught |-> FALSE, flag |-> FALSE]

\* A call that returned the identifier ret.
Returned(op, app_name, number, ret) ==
    [op |-> op, app_name |-> app_name, number |-> number, ret |-> ret,
     raised |-> "none", caught |-> FALSE, flag |-> TRUE]

\* A mutation of Failed: no method catches the error, it always reaches the
\* caller.
FailedNeverCaught(op, number, kind, caught) ==
    [op |-> op, app_name |-> <<>>, number |-> number, ret |-> <<>>,
     raised |-> kind, caught |-> FALSE, flag |-> FALSE]

\* A call in which ValueError(kind) was raised and that returned no
\* identifier: the error reached the caller, or the method caught it, showed
\* it with st.error and returned None.
Failed(op, number, kind, caught) ==
    [op |-> op, app_name |-> <<>>, number |-> number, ret |-> <<>>,
     raised |-> kind, caught |-> caught, flag |-> FALSE]

-----------------------------------------------------------------------------
(* The generator's methods.                                                *)

\* available_numbers = self.max_number - self.min_number + 1
available_numbers == max_number - min_number + 1

\* A mutation of Exhausted: the range is reported used up one id early.
ExhaustedOneEarly(used) == Cardinality(used) >= available_numbers - 1

\* A mutation of Exhausted: the comparison is strict.
ExhaustedStrict(used) == Cardinality(used) > available_numbers

\* len(st.session_state.used_numbers) >= available_numbers
Exhausted(used) == Cardinality(used) >= available_numbers

\* A mutation of Drawable: the draw is returned without the membership test.
DrawableUnchecked(used) == min_number..max_number

\* The numbers the draw-until-unused loop can leave with.
Drawable(used) == {number \in min_number..max_number : number \notin used}

\* A mutation of list_append: the item is put at the front of the list.
list_insert_first(list, item) == <<item>> \o list

\* list.append(item)
list_append(list, item) == Append(list, item)

\* A mutation of DictSet: the entry is not stored.
DictSetNotStored(d, key, value) == d

\* dict[key] = value
DictSet(d, key, value) ==
    [k \in DOMAIN d \cup {key} |-> IF k = key THEN value ELSE d[k]]

\* A mutation of NewRecord: the description is left out of the record.
NewRecordNoDescription(sft_number, app_name, description, timestamp, status, app_prefix) ==
    [SFT_Number |-> sft_number, Application_Name |-> app_name,
     Description |-> <<>>, Registration_Date |-> timestamp,
     Status |-> status, App_Prefix |-> app_prefix]

\* new_record = {...}
NewRecord(sft_number, app_name, description, timestamp, status, app_prefix) ==
    [SFT_Number |-> sft_number, Application_Name |-> app_name,
     Description |-> description, Registration_Date |-> timestamp,
     Status |-> status, App_Prefix |-> app_prefix]

MappingEntry(app_name, timestamp) ==
    [app_name |-> app_name, registration_date |-> timestamp]

\* A mutation of InUse: the membership test is dropped.
InUseNever(number, used) == FALSE

\* number in st.session_state.used_numbers
InUse(number, used) == number \in used

\* A mutation of InRange: the upper end is not tested.
InRangeNoUpper(number) == min_number <= number

\* self.min_number <= number <= self.max_number
InRange(number) == min_number <= number /\ number <= max_number

\* A mutation of is_number_available: the used set is not consulted.
is_number_available_range_only(number) == InRange(number)

\* A mutation of is_number_available: the lower end is excluded.
is_number_available_above_min(number) ==
    min_number < number /\ number <= max_number /\ number \notin used_numbers

\* (self.min_number <= number <= self.max_number) and (number not in used)
is_number_available(number) == InRange(number) /\ number \notin used_numbers

\* The state after a registration of `number` under `app_name`: the number
\* joins used_numbers, one record is appended, the mapping gets the id, and
\* the document is saved.  (The one-element sets name values computed once.)
Registered(op, number, app_name, description, status, t, io) ==
    \E app_prefix \in {extract_app_prefix(app_name)} :
    \E sft_number \in {FormatSft(app_prefix, number)} :
       /\ used_numbers' = used_numbers \cup {number}
       /\ applications' = list_append(applications,
                                      NewRecord(sft_number, app_name, description,
                                                t, status, app_prefix))
       /\ sft_mapping' = DictSet(sft_mapping, sft_number, MappingEntry(app_name, t))
       /\ \E order \in Orders(used_numbers', io) :
             file' = save_persistent_data(file, used_numbers', applications',
                                          sft_mapping', order, t, io)
       /\ now' = t
       /\ result' = Returned(op, app_name, number, sft_number)
       /\ issued' = Append(issued, [number |-> number, op |-> op])

\* register_application: generate_sft_number raises when the range is used
\* up and register_application catches it, shows it and returns None.
register_application(app_name, description) ==
    IF Exhausted(used_numbers)
    THEN /\ result' = Failed("register_application", 0, "exhausted", TRUE)
         /\ UNCHANGED <<used_numbers, applications, sft_mapping, file, now, issued>>
    ELSE \E number \in Drawable(used_numbers), t \in now..MaxClock, io \in IoOutcomes :
            Registered("register_application", number, app_name, description,
                       "Active", t, io)

\* A mutation of reserve_specific_number: the number is added to the used
\* set before the two tests.
reserve_specific_number_adds_first(number, app_name, description) ==
    IF ~InRange(number) \/ InUse(number, used_numbers)
    THEN /\ result' = Failed("reserve_specific_number", number,
                             IF ~InRange(number) THEN "out_of_range" ELSE "in_use",
                             FALSE)
         /\ used_numbers' = used_numbers \cup {number}
         /\ UNCHANGED <<applications, sft_mapping, file, now, issued>>
    ELSE \E t \in now..MaxClock, io \in IoOutcomes :
            Registered("reserve_specific_number", number, app_name, description,
                       "Reserved", t, io)

reserve_specific_number(number, app_name, description) ==
    IF ~InRange(number)
    THEN /\ result' = Failed("reserve_specific_number", number, "out_of_range", FALSE)
         /\ UNCHANGED <<used_numbers, applications, sft_mapping, file, now, issued>>
    ELSE IF InUse(number, used_numbers)
    THEN /\ result' = Failed("reserve_specific_number", number, "in_use", FALSE)
         /\ UNCHANGED <<used_numbers, applications, sft_mapping, file, now, issued>>
    ELSE \E t \in now..MaxClock, io \in IoOutcomes :
            Registered("reserve_specific_number", number, app_name, description,
                       "Reserved", t, io)

IsNumberAvailable(number) ==
    /\ result' = [NoResult EXCEPT !.op = "is_number_available", !.number = number,
                                  !.flag = is_number_available(number)]
    /\ UNCHANGED <<used_numbers, applications, sft_mapping, file, now, issued>>

\* A name typed into a form's "Application Name" field.
Typed(app_name) == [NoResult EXCEPT !.op = "typed", !.app_name = app_name]

\* The prefix preview of the forms: extract_app_prefix of the name typed.
ExtractAppPrefix ==
    /\ result.op = "typed"
    /\ result' = Returned("extract_app_prefix", result.app_name, 0,
                          extract_app_prefix(result.app_name))
    /\ UNCHANGED <<used_numbers, applications, sft_mapping, file, now, issued>>

\* A direct call of save_persistent_data on the current ledger.
SavePersistentData ==
    /\ \E t \in now..MaxClock, io \in IoOutcomes :
          \E order \in Orders(used_numbers, io) :
             /\ file' = save_persistent_data(file, used_numbers, applications,
                                             sft_mapping, order, t, io)
             /\ now' = t
    /\ result' = [NoResult EXCEPT !.op = "save_persistent_data"]
    /\ UNCHANGED <<used_numbers, applications, sft_mapping, issued>>

\* A new session constructs the generator, which loads the document.
LoadPersistentData ==
    /\ used_numbers' = load_persistent_data(file)[1]
    /\ applications' = load_persistent_data(file)[2]
    /\ sft_mapping' = load_persistent_data(file)[3]
    /\ result' = [NoResult EXCEPT !.op = "load_persistent_data"]
    /\ issued' = <<>>
    /\ UNCHANGED <<file, now>>

\* Python's None, the value of a call that returns no identifier.
None == <<>>

\* dict.get(key, default)
Get(d, key, default) == IF key \in DOMAIN d THEN d[key] ELSE default

Unknown == <<"U", "n", "k", "n", "o", "w", "n">>

\* The session state, the data file and the clock as one value, for the calls
\* a method makes one after another.
Session ==
    [used_numbers |-> used_numbers, applications |-> applications,
     sft_mapping |-> sft_mapping, file |-> file, now |-> now, issued |-> issued]

\* register_application's effect on session s when the loop leaves with
\* `number`, the clock reads t and the write ends as io: the session after
\* the call and the identifier returned.
registered(s, number, app_name, description, t, io, order) ==
    LET app_prefix == extract_app_prefix(app_name)
        sft_number == FormatSft(app_prefix, number)
        used == s.used_numbers \cup {number}
        apps == list_append(s.applications,
                            NewRecord(sft_number, app_name, description, t,
                                      "Active", app_prefix))
        mapping == DictSet(s.sft_mapping, sft_number, MappingEntry(app_name, t))
    IN [session |-> [used_numbers |-> used, applications |-> apps,
                     sft_mapping |-> mapping,
                     file |-> save_persistent_data(s.file, used, apps, mapping,
                                                   order, t, io),
                     now |-> t,
                     issued |-> Append(s.issued,
                                       [number |-> number,
                                        op |-> "register_application"])],
        sft_number |-> sft_number]

\* The outcomes of register_application(app_name, description) called in
\* session s: None on an unchanged session when the range is used up, else
\* one outcome for each number, clock reading and write the call can meet.
register_application_in(s, app_name, description) ==
    IF Exhausted(s.used_numbers)
    THEN {[session |-> s, sft_number |-> None]}
    ELSE UNION {{registered(s, c[1], app_name, description, c[2], c[3], order) :
                    order \in Orders(s.used_numbers \cup {c[1]}, c[3])} :
                c \in Drawable(s.used_numbers) \X (s.now..MaxClock) \X IoOutcomes}

\* A mutation of BulkResult: the success flag is set without looking at the
\* identifier.
BulkResultAlwaysSuccess(app, sft_number) ==
    [application |-> Get(app, "name", Unknown), sft_number |-> sft_number,
     success |-> TRUE]

\* The dict bulk_register_applications appends for one entry.
BulkResult(app, sft_number) ==
    [application |-> Get(app, "name", Unknown), sft_number |-> sft_number,
     success |-> sft_number # None]

\* The outcomes of bulk_register_applications' loop over applications_list
\* from session s with `results` collected so far: the session after the last
\* entry and the list returned.
RECURSIVE bulk_register_applications(_, _, _)
bulk_register_applications(s, applications_list, results) ==
    IF applications_list = <<>>
    THEN {[session |-> s, results |-> results]}
    ELSE LET app == Head(applications_list) IN
         UNION {bulk_register_applications(
                    o.session, Tail(applications_list),
                    Append(results, BulkResult(app, o.sft_number))) :
                o \in register_application_in(s, Get(app, "name", Unknown),
                                              Get(app, "description", <<>>))}

\* One press of "Bulk Register Applications" with applications_list.
BulkRegisterApplications(applications_list) ==
    \E o \in bulk_register_applications(Session, applications_list, <<>>) :
       /\ used_numbers' = o.session.used_numbers
       /\ applications' = o.session.applications
       /\ sft_mapping' = o.session.sft_mapping
       /\ file' = o.session.file
       /\ now' = o.session.now
       /\ issued' = o.session.issued
       /\ result' = [op |-> "bulk_register_applications", app_name |-> <<>>,
                     number |-> 0, ret |-> o.results, raised |-> "none",
                     caught |-> FALSE, flag |-> TRUE,
                     applications_list |-> applications_list]

\* needle in hay, for str
Contains(needle, hay) ==
    \E i \in 0..(Len(hay) - Len(needle)) :
       SubSeq(hay, i + 1, i + Len(needle)) = needle

\* The test search_applications puts each record to.
Matches(search_term, app) ==
    \/ Contains(search_term, Upper(app.Application_Name))
    \/ Contains(search_term, Upper(app.SFT_Number))
    \/ Contains(search_term, Upper(Get(app, "Description", <<>>)))

\* The list search_applications returns: the matching records in list order.
search_applications(search_term) ==
    SelectSeq(applications, LAMBDA app : Matches(Upper(search_term), app))

SearchApplications(search_term) ==
    /\ result' = [op |-> "search_applications", app_name |-> <<>>, number |-> 0,
                  ret |-> search_applications(search_term), raised |-> "none",
                  caught |-> FALSE, flag |-> TRUE, search_term |-> search_term]
    /\ UNCHANGED <<used_numbers, applications, sft_mapping, file, now, issued>>

\* The dict get_statistics returns.  usage_percentage is the float
\* (used_count / total_available) * 100, kept here as the exact fraction
\* used_count * 100 / total_available.
get_statistics ==
    LET total_available == max_number - min_number + 1
        used_count == Cardinality(used_numbers)
    IN [total_available |-> total_available, used_count |-> used_count,
        remaining |-> total_available - used_count,
        usage_percentage |-> [numerator |-> used_count * 100,
                              denominator |-> total_available]]

GetStatistics ==
    /\ result' = [NoResult EXCEPT !.op = "get_statistics", !.ret = get_statistics,
                                  !.flag = TRUE]
    /\ UNCHANGED <<used_numbers, applications, sft_mapping, file, now, issued>>

\* generate_sft_number, called by register_application for app_name, is in
\* its while loop; number is the last draw that was found in use (0: none yet).
Drawing(app_name) ==
    [NoResult EXCEPT !.op = "generate_sft_number", !.app_name = app_name]

\* register_application calls generate_sft_number, which raises on a used-up
\* range (register_application catches that and returns None) and else
\* enters its loop.
EnterGenerate(app_name) ==
    /\ result.op # "generate_sft_number"
    /\ result' = IF Exhausted(used_numbers)
                 THEN Failed("register_application", 0, "exhausted", TRUE)
                 ELSE Drawing(app_name)
    /\ UNCHANGED <<used_numbers, applications, sft_mapping, file, now, issued>>

\* One pass of the loop in which random.randint gives `number`: an unused
\* number ends the loop and register_application runs to its return, a number
\* in use sends the loop round again.
Draw(number) ==
    /\ result.op = "generate_sft_number"
    /\ IF number \in Drawable(used_numbers)
       THEN \E t \in now..MaxClock, io \in IoOutcomes :
               Registered("register_application", number, result.app_name,
                          DescriptionOf(result.app_name), "Active", t, io)
       ELSE /\ result' = [result EXCEPT !.number = number]
            /\ UNCHANGED <<used_numbers, applications, sft_mapping, file, now, issued>>

-----------------------------------------------------------------------------
(* Specifications.                                                         *)

\* A first session in a directory without a data file: the ledger is empty.
Init ==
    /\ file = NoFile
    /\ used_numbers = load_persistent_data(NoFile)[1]
    /\ applications = load_persistent_data(NoFile)[2]
    /\ sft_mapping = load_persistent_data(NoFile)[3]
    /\ now = 0
    /\ result = NoResult
    /\ issued = <<>>

Register == \E app_name \in AppNames :
               register_application(app_name, DescriptionOf(app_name))

Reserve == \E number \in NumberInputs, app_name \in AppNames :
              reserve_specific_number(number, app_name, DescriptionOf(app_name))

CheckAvailable == \E number \in NumberInputs : IsNumberAvailable(number)

Next == Register \/ Reserve \/ CheckAvailable

Spec == Init /\ [][Next]_vars

\* The sessions of the program over one data file: registrations, explicit
\* saves, and restarts that load the file.
NextPersist == Register \/ SavePersistentData \/ LoadPersistentData

SpecPersist == Init /\ [][NextPersist]_vars

\* extract_app_prefix applied to each name of PrefixInputs, typed into the
\* registration form of a fresh session.
InitPrefix ==
    /\ file = NoFile
    /\ used_numbers = load_persistent_data(NoFile)[1]
    /\ applications = load_persistent_data(NoFile)[2]
    /\ sft_mapping = load_persistent_data(NoFile)[3]
    /\ now = 0
    /\ result \in {Typed(app_name) : app_name \in PrefixInputs}
    /\ issued = <<>>

NextPrefix == ExtractAppPrefix

SpecPrefix == InitPrefix /\ [][NextPrefix]_vars

BulkRegister == \E applications_list \in BulkInputs :
                   BulkRegisterApplications(applications_list)

Search == \E search_term \in SearchTerms : SearchApplications(search_term)

Statistics == GetStatistics

\* One session using every page of the application.
NextOps ==
    Register \/ Reserve \/ CheckAvailable \/ BulkRegister \/ Search \/ Statistics

SpecOps == Init /\ [][NextOps]_vars

\* register_application taken one pass of the draw loop at a time.
BeginRegister == \E app_name \in AppNames : EnterGenerate(app_name)

DrawAny == \E number \in min_number..max_number : Draw(number)

\* A pass in which the draw is an unused number.
DrawUnused == \E number \in Drawable(used_numbers) : Draw(number)

NextLoop == BeginRegister \/ DrawAny

\* The draws are independent and uniform over the range, so a loop that keeps
\* drawing does not miss the unused numbers for ever.
SpecLoop == Init /\ [][NextLoop]_vars /\ WF_vars(DrawUnused)

-----------------------------------------------------------------------------
(* Properties.                                                             *)

Registrations == {"register_application", "reserve_specific_number"}

\* The last call was a registration that returned an identifier.
Succeeded == result.op \in Registrations /\ result.raised = "none"

\* C1: the numeric ids handed out by register_application and
\* reserve_specific_number, in any interleaving from an empty ledger, are
\* pairwise distinct and each lies in [min_number, max_number].
C1_DistinctInRange ==
    \A i \in DOMAIN issued :
       /\ min_number <= issued[i].number
       /\ issued[i].number <= max_number
       /\ \A j \in DOMAIN issued : i # j => issued[i].number # issued[j].number

\* Both methods have handed out ids, the latest by register_application.
C1_Witness ==
    /\ Len(issued) >= 2
    /\ result.op = "register_application" /\ result.raised = "none"
    /\ \E i \in DOMAIN issued : issued[i].op = "reserve_specific_number"

\* C2: from an empty ledger the ids handed out number exactly the ids used
\* and never more than the size of the range; a register_application call
\* raises the exhaustion error and returns no id exactly when every id of
\* the range is used (by registrations or by reservations), and otherwise
\* hands out one more id.
C2_ExhaustedAfterAll ==
    /\ [](Len(issued) = Cardinality(used_numbers)
          /\ Len(issued) <= max_number - min_number + 1)
    /\ [][result'.op = "register_application" =>
            IF Cardinality(used_numbers) = max_number - min_number + 1
            THEN result'.raised = "exhausted" /\ result'.ret = <<>>
                 /\ issued' = issued
            ELSE result'.raised = "none" /\ Len(issued') = Len(issued) + 1]_vars

\* The range was used up by both methods and the next register_application
\* raised.
C2_Witness ==
    /\ result.op = "register_application" /\ result.raised = "exhausted"
    /\ Len(issued) = max_number - min_number + 1
    /\ \E i \in DOMAIN issued : issued[i].op = "register_application"
    /\ \E i \in DOMAIN issued : issued[i].op = "reserve_specific_number"

\* C3: a number reserved by reserve_specific_number is unavailable in every
\* later state, and a later reserve_specific_number of it raises the
\* already-in-use error.
C3_ReservedStaysTaken ==
    /\ [](\A i \in DOMAIN issued :
             issued[i].op = "reserve_specific_number"
                => ~is_number_available(issued[i].number))
    /\ [][(/\ result'.op = "reserve_specific_number"
           /\ \E i \in DOMAIN issued :
                 /\ issued[i].op = "reserve_specific_number"
                 /\ issued[i].number = result'.number)
            => result'.raised = "in_use"]_vars

\* A reserved number was reserved again and the call raised.
C3_Witness ==
    /\ result.op = "reserve_specific_number" /\ result.raised = "in_use"
    /\ \E i \in DOMAIN issued :
          /\ issued[i].op = "reserve_specific_number"
          /\ issued[i].number = result.number

\* C4: reserve_specific_number of a number outside [min_number, max_number]
\* raises the out-of-range error whatever the used set holds, of a number
\* inside the range that is used raises the already-in-use error, and a
\* call that raises returns no id and uses none.
C4_ReserveErrors ==
    [][result'.op = "reserve_specific_number" =>
         /\ (result'.number < min_number \/ result'.number > max_number)
               => result'.raised = "out_of_range"
         /\ (/\ min_number <= result'.number /\ result'.number <= max_number
             /\ result'.number \in used_numbers)
               => result'.raised = "in_use"
         /\ result'.raised # "none"
               => /\ result'.ret = <<>>
                  /\ used_numbers' = used_numbers
                  /\ issued' = issued]_vars

\* A number above the range was refused while ids were in use.
C4_Witness ==
    /\ result.op = "reserve_specific_number" /\ result.raised = "out_of_range"
    /\ result.number > max_number
    /\ used_numbers # {}

\* C5: is_number_available(n) is true exactly when n lies in
\* [min_number, max_number] and is not in used_numbers, and the call leaves
\* the ledger and the document as they were.
C5_AvailableIffFree ==
    /\ [](result.op = "is_number_available" =>
             (result.flag <=> /\ min_number <= result.number
                              /\ result.number <= max_number
                              /\ result.number \notin used_numbers))
    /\ [][result'.op = "is_number_available" =>
            UNCHANGED <<used_numbers, applications, sft_mapping, file>>]_vars

\* A used number of the range was asked about and reported unavailable.
C5_Witness ==
    /\ result.op = "is_number_available"
    /\ result.number \in used_numbers
    /\ ~result.flag

\* C6: the prefix has exactly 4 characters, all upper-case ASCII letters or
\* digits; with c the ASCII letters and digits of the upper-cased name, the
\* prefix is c right-padded with "X" to length 4 when c has at most 4
\* characters (none included), and the first 2 then the last 2 characters
\* of c when it has more.
C6_PrefixRule ==
    result.op = "extract_app_prefix" =>
       LET c == Cleaned(result.app_name)
           p == result.ret
       IN /\ Len(p) = 4
          /\ Range(p) \subseteq Range(UpperLetters) \cup Range(DigitChars)
          /\ Len(c) <= 4 => p = [i \in 1..4 |-> IF i <= Len(c) THEN c[i] ELSE "X"]
          /\ Len(c) > 4 => p = <<c[1], c[2], c[Len(c) - 1], c[Len(c)]>>

\* The prefix of a name with more than 4 letters and digits, some of them
\* separated by other characters, was taken.
C6_Witness ==
    /\ result.op = "extract_app_prefix"
    /\ Len(Cleaned(result.app_name)) > 4
    /\ Len(result.app_name) > Len(Cleaned(result.app_name))

\* C7 as stated: the prefix of "WebApp_Authentication" is "WEAN".
C7_Original ==
    (result.op = "extract_app_prefix" /\ result.app_name = WebApp_Authentication)
       => result.ret = <<"W", "E", "A", "N">>

\* C7: the prefix of "WebApp_Authentication" is "WEON", the first 2 and the
\* last 2 characters of "WEBAPPAUTHENTICATION".
C7_PrefixIsWEON ==
    (result.op = "extract_app_prefix" /\ result.app_name = WebApp_Authentication)
       => result.ret = <<"W", "E", "O", "N">>

\* The prefix of "WebApp_Authentication" was taken.
C7_Witness ==
    result.op = "extract_app_prefix" /\ result.app_name = WebApp_Authentication

\* C8 as stated: the identifier returned is the prefix of the name followed
\* by the decimal numeric id, with nothing before the prefix.
C8_Original ==
    Succeeded =>
       result.ret = extract_app_prefix(result.app_name) \o Decimal(result.number)

\* C8: the identifier returned by register_application and by
\* reserve_specific_number is "SFT_", then the prefix of the name, then the
\* decimal numeric id.
C8_SftPrefixNumber ==
    Succeeded =>
       result.ret = <<"S", "F", "T", "_">> \o extract_app_prefix(result.app_name)
                       \o Decimal(result.number)

\* A reservation of the top id of the range under a long name returned.
C8_Witness ==
    /\ Succeeded
    /\ result.op = "reserve_specific_number"
    /\ result.number = max_number
    /\ Len(Cleaned(result.app_name)) > 4

\* C9 as stated: a load_persistent_data that directly follows a
\* save_persistent_data of the ledger yields the same used set and the same
\* record list.
C9_RoundTrip ==
    [][(result.op = "save_persistent_data" /\ result'.op = "load_persistent_data")
          => (used_numbers' = used_numbers /\ applications' = applications)]_vars

\* C10 as stated: after a registration that returned an identifier the
\* document exists, is whole, and holds the ledger of the session.
C10_PersistedOnSuccess ==
    Succeeded =>
       /\ file.exists /\ file.valid
       /\ SetOf(file.used_numbers) = used_numbers
       /\ file.applications = applications
       /\ file.sft_mapping = sft_mapping

-----------------------------------------------------------------------------
(* The ledger over a session.                                              *)

\* a is b's first Len(a) elements.
IsPrefix(a, b) == Len(a) <= Len(b) /\ SubSeq(b, 1, Len(a)) = a

\* C11: over register, reserve, bulk-register, search, statistics and
\* availability operations the record list only grows at its end (the list
\* before a step is a prefix of the list after it, hence of the list in every
\* later state), and the used-id set never loses an element.
C11_AppendOnly ==
    [][IsPrefix(applications, applications') /\ used_numbers \subseteq used_numbers']_vars

\* Two records are in the list, in registration order, and a search that left
\* them in place has just returned both.
C11_Witness ==
    /\ result.op = "search_applications"
    /\ Len(applications) = 2
    /\ result.ret = applications
    /\ \A i \in 1..Len(applications) :
          applications[i].SFT_Number =
             FormatSft(applications[i].App_Prefix, issued[i].number)

\* The records a step appended, in order.
Appended == SubSeq(applications', Len(applications) + 1, Len(applications'))

\* C12: a register_application or reserve_specific_number call that returns
\* an identifier appends exactly one record, carrying that identifier and the
\* name and description given; a call that returns none appends no record.
C12_OneRecordPerSuccess ==
    [][result'.op \in Registrations =>
          /\ IsPrefix(applications, applications')
          /\ IF result'.raised = "none"
             THEN /\ Len(Appended) = 1
                  /\ Appended[1].SFT_Number = result'.ret
                  /\ Appended[1].Application_Name = result'.app_name
                  /\ Appended[1].Description = DescriptionOf(result'.app_name)
             ELSE Appended = <<>>]_vars

\* A reservation has just returned an identifier and the last record of the
\* list carries it with the name and the non-empty description given.
C12_Witness ==
    /\ result.op = "reserve_specific_number"
    /\ result.raised = "none"
    /\ Len(applications) = 2
    /\ applications[2].SFT_Number = result.ret
    /\ applications[2].Application_Name = result.app_name
    /\ applications[2].Description = <<"v", "2">>

-----------------------------------------------------------------------------
(* Errors.                                                                 *)

\* C13, as stated: every error raised reaches the caller of the operation
\* that hit it; none is caught inside the operation and turned into a normal
\* return.
C13_Original == result.raised # "none" => ~result.caught

\* C13: the out-of-range and already-used errors of reserve_specific_number
\* reach its caller; the exhaustion error raised in generate_sft_number is
\* caught by register_application, which returns None to its caller.  No
\* error is retried: the call that hit it hands out no identifier.
C13_ErrorsSurfaced ==
    result.raised # "none" =>
        /\ result.ret = None
        /\ result.op = "reserve_specific_number" =>
              result.raised \in {"out_of_range", "in_use"} /\ ~result.caught
        /\ result.op = "register_application" =>
              result.raised = "exhausted" /\ result.caught

\* A registration was attempted on a used-up range.
C13_Witness ==
    /\ result.op = "register_application"
    /\ result.raised = "exhausted"
    /\ Exhausted(used_numbers)

-----------------------------------------------------------------------------
(* The draw loop.                                                          *)

\* C14: the loop of generate_sft_number is entered only when some number of
\* the range is unused, a call made when some number is unused does not end
\* with the exhaustion error, and, the draw being fair, a call that is in the
\* loop eventually returns an identifier.
C14_AllocateReturns ==
    /\ [](result.op = "generate_sft_number" => Drawable(used_numbers) # {})
    /\ [][result'.raised = "exhausted" => Drawable(used_numbers) = {}]_vars
    /\ (result.op = "generate_sft_number")
          ~> (result.op = "register_application" /\ result.raised = "none")

\* The loop has drawn a number that is in use and goes round again, with
\* another number still unused.
C14_Witness ==
    /\ result.op = "generate_sft_number"
    /\ result.number \in used_numbers
    /\ Drawable(used_numbers) # {}

-----------------------------------------------------------------------------
(* Bulk registration.                                                      *)

Min(a, b) == IF a <= b THEN a ELSE b

\* C15: bulk_register_applications returns one result per entry, in entry
\* order; an entry's success flag is set exactly when the entry got an
\* identifier, which is then the identifier of a record the batch appended;
\* the entries are served while unused numbers last, they keep their
\* identifiers and records, and every entry after the range is used up is
\* reported failed with no identifier, up to the end of the list.
C15_BulkResults ==
    [][result'.op = "bulk_register_applications" =>
          LET list == result'.applications_list
              results == result'.ret
              served == Min(Len(list), Cardinality(Drawable(used_numbers)))
          IN /\ Len(results) = Len(list)
             /\ \A i \in 1..Len(list) :
                   /\ results[i].application = list[i].name
                   /\ results[i].success <=> i <= served
                   /\ results[i].success <=> results[i].sft_number # None
             /\ IsPrefix(applications, applications')
             /\ Len(Appended) = served
             /\ \A i \in 1..served :
                   /\ Appended[i].SFT_Number = results[i].sft_number
                   /\ Appended[i].Application_Name = list[i].name
                   /\ \E number \in used_numbers' \ used_numbers :
                         results[i].sft_number =
                            FormatSft(extract_app_prefix(list[i].name), number)
             /\ Cardinality(used_numbers') = Cardinality(used_numbers) + served]_vars

\* A batch of three met the end of the range after its first entry: the first
\* result carries the identifier of the record appended, the two after it
\* report failure.
C15_Witness ==
    /\ result.op = "bulk_register_applications"
    /\ Len(result.ret) = 3
    /\ result.ret[1].success
    /\ result.ret[1].sft_number = applications[Len(applications)].SFT_Number
    /\ \A i \in 2..3 : ~result.ret[i].success /\ result.ret[i].sft_number = None

-----------------------------------------------------------------------------
(* The ledger's structures.                                                *)

\* C16: a reserve_specific_number call that raises the out-of-range or the
\* already-used error, and a register_application call that meets the
\* exhaustion error, leave the used set, the record list, the mapping and the
\* data file as they were before the call.
C16_FailureLeavesLedger ==
    [][(result'.op \in Registrations /\ result'.raised # "none") =>
          UNCHANGED <<used_numbers, applications, sft_mapping, file>>]_vars

\* A registration has just failed on a used-up range whose data file holds
\* the ledger of before the call.
C16_Witness ==
    /\ result.op = "register_application"
    /\ result.raised = "exhausted"
    /\ file.valid
    /\ SetOf(file.used_numbers) = used_numbers
    /\ file.applications = applications
    /\ Len(applications) = available_numbers

DigitValue(c) == CHOOSE n \in 0..9 : DigitChars[n + 1] = c

\* int(s) for a string of decimal digits
RECURSIVE ParseInt(_)
ParseInt(s) ==
    IF s = <<>> THEN 0
    ELSE ParseInt(SubSeq(s, 1, Len(s) - 1)) * 10 + DigitValue(s[Len(s)])

\* The numeric id a record carries: what follows "SFT_" and the record's
\* prefix in its SFT_Number.
NumericId(app) ==
    ParseInt(SubSeq(app.SFT_Number, 5 + Len(app.App_Prefix), Len(app.SFT_Number)))

\* C17: from an empty ledger, after every operation the used set is the set
\* of numeric ids carried by the records, the keys of sft_mapping are the
\* SFT_Numbers of the records, and the used count, the number of records and
\* the number of mapping entries are equal.
C17_Correspondence ==
    /\ used_numbers = {NumericId(applications[i]) : i \in 1..Len(applications)}
    /\ DOMAIN sft_mapping =
          {applications[i].SFT_Number : i \in 1..Len(applications)}
    /\ Cardinality(used_numbers) = Len(applications)
    /\ Cardinality(DOMAIN sft_mapping) = Len(applications)

\* Two registrations, one by register_application and one by
\* reserve_specific_number, have completed.
C17_Witness ==
    /\ Len(applications) = 2
    /\ {issued[i].op : i \in 1..Len(issued)} = Registrations
    /\ Cardinality(DOMAIN sft_mapping) = 2

\* C18: reserve_specific_number(n, name) returns an identifier exactly when
\* is_number_available(n) is true in the state the call is made in.
C18_ReserveIffAvailable ==
    [][result'.op = "reserve_specific_number" =>
          (result'.raised = "none" <=> is_number_available(result'.number))]_vars

\* The highest number of the range has just been reserved, so it was
\* available before the call and is not after it.
C18_Witness ==
    /\ result.op = "reserve_specific_number"
    /\ result.raised = "none"
    /\ result.number = max_number
    /\ ~is_number_available(max_number)

====
